---- MODULE Spec2Model ----
(***************************************************************************)
(* A model of the three helper scripts under misc/:                        *)
(*   filter-golang-stack.py  the stack trace chunker and filter            *)
(*   centos-ci.py            lease a CI host, set it up, run, release      *)
(*   copr-build.py           submit a copr build and poll until completion *)
(* Text is modelled as a sequence of one-character strings, so that        *)
(* str.startswith, str.split and string concatenation are computed as      *)
(* Python computes them.  Indices are zero based, as in the scripts.       *)
(***************************************************************************)
EXTENDS Integers, Sequences, FiniteSets, TLC

(* ---------------- bounds of the model ---------------- *)

\* the longest input (number of lines) that Init draws
MaxLines ==
    5

(* ---------------- string literals of filter-golang-stack.py ---------------- *)

PcPrefix ==
    <<"P","C","=">>
MainMain ==
    <<"m","a","i","n",".","m","a","i","n","(",")">>
GoroutinePrefix ==
    <<"g","o","r","o","u","t","i","n","e">>
VendorPrefix ==
    <<"g","i","t","h","u","b",".","c","o","m","/","p","u","r","p","l","e","i","d","e","a","/","m","g","m","t","/","v","e","n","d","o","r","/">>
GithubPrefix ==
    <<"g","i","t","h","u","b",".","c","o","m","/">>
ProjectPrefix ==
    <<"g","i","t","h","u","b",".","c","o","m","/","p","u","r","p","l","e","i","d","e","a","/","m","g","m","t","/">>
InternalPoll ==
    <<"i","n","t","e","r","n","a","l","/","p","o","l","l">>
PropagateCancel ==
    <<"c","o","n","t","e","x","t",".","p","r","o","p","a","g","a","t","e","C","a","n","c","e","l">>
RuntimeGopark ==
    <<"r","u","n","t","i","m","e",".","g","o","p","a","r","k">>
RuntimeFutex ==
    <<"r","u","n","t","i","m","e",".","f","u","t","e","x">>
SignalRecv ==
    <<"o","s","/","s","i","g","n","a","l",".","s","i","g","n","a","l","_","r","e","c","v">>
LineHeader ==
    <<"h","e","a","d","e","r","\n">>
LinePC ==
    <<"P","C","=","0","x","1","\n">>
LineMain ==
    <<"m","a","i","n",".","m","a","i","n","(",")","\n">>
LineGoroutine ==
    <<"g","o","r","o","u","t","i","n","e"," ","1"," ","[","r","u","n","n","i","n","g","]",":","\n">>
LineOwn ==
    <<"g","i","t","h","u","b",".","c","o","m","/","p","u","r","p","l","e","i","d","e","a","/","m","g","m","t","/","f","o","o",".","g","o",":","1","\n">>
LineVendor ==
    <<"g","i","t","h","u","b",".","c","o","m","/","p","u","r","p","l","e","i","d","e","a","/","m","g","m","t","/","v","e","n","d","o","r","/","f","o","o","/","f","o","o",".","g","o",":","1","\n">>
LineRax ==
    <<"r","a","x"," ","0","x","0","\n">>
LineThird ==
    <<"g","i","t","h","u","b",".","c","o","m","/","o","t","h","e","r","/","x",".","g","o",":","1","\n">>
rx ==
    << <<"r","a","x">>,
       <<"r","b","x">>,
       <<"r","c","x">>,
       <<"r","d","x">>,
       <<"r","d","i">>,
       <<"r","s","i">>,
       <<"r","b","p">>,
       <<"r","s","p">>,
       <<"r","8">>,
       <<"r","9">>,
       <<"r","1","0">>,
       <<"r","1","1">>,
       <<"r","1","2">>,
       <<"r","1","3">>,
       <<"r","1","4">>,
       <<"r","1","5">>,
       <<"r","i","p">>,
       <<"r","f","l","a","g","s">>,
       <<"c","s">>,
       <<"f","s">>,
       <<"g","s">> >>

(* ---------------- input of filter-golang-stack.py ---------------- *)

\* the kinds of line an input is made of; every one ends with its terminator
TerminatedLines ==
    {LineHeader, LinePC, LineMain, LineGoroutine, LineOwn, LineVendor,
     LineThird, LineRax}

\* readlines() keeps the terminators: only the last line of a file can lack one
LastLines ==
    TerminatedLines \cup {MainMain}

\* what readlines() can return: at most MaxLines lines
Inputs ==
    UNION { { s \in [1..n -> LastLines] :
                \A k \in 1..(n - 1) : s[k] \in TerminatedLines } : n \in 0..MaxLines }

(* ---------------- helpers ---------------- *)

\* the value of a name that has not been assigned
Unbound ==
    -1

\* str.startswith
StartsWith(s, p) ==
    Len(s) >= Len(p) /\ SubSeq(s, 1, Len(p)) = p

Min(S) ==
    CHOOSE x \in S : \A y \in S : x <= y

\* str.split("\n")
RECURSIVE split(_)
split(s) ==
    IF \A k \in 1..Len(s) : s[k] # "\n"
    THEN <<s>>
    ELSE LET k == Min({m \in 1..Len(s) : s[m] = "\n"})
         IN  <<SubSeq(s, 1, k - 1)>> \o split(SubSeq(s, k + 1, Len(s)))

\* the concatenation of ls[a], ..., ls[b - 1] (zero based), as the inner loop
\* builds it: chunk = line, then chunk = chunk + jline
RECURSIVE Accumulate(_, _, _)
Accumulate(ls, a, b) ==
    IF a >= b THEN <<>> ELSE ls[a + 1] \o Accumulate(ls, a + 1, b)

(* ---------------- functions of filter-golang-stack.py ---------------- *)

\* FindStart without the break of line 39: the last match wins
FindStartNoBreak(ls) ==
    LET hits == {k \in 0..(Len(ls) - 1) : StartsWith(ls[k + 1], PcPrefix)}
    IN  IF hits = {} THEN -1 ELSE CHOOSE x \in hits : \A y \in hits : x >= y

\* the index of the first line that starts with "PC=", or -1
FindStart(ls) ==
    LET hits == {k \in 0..(Len(ls) - 1) : StartsWith(ls[k + 1], PcPrefix)}
    IN  IF hits = {} THEN -1 ELSE Min(hits)

is_chunk(line) ==
    line = MainMain \/ StartsWith(line, GoroutinePrefix)

is_end(line) ==
    \E x \in 1..Len(rx) : StartsWith(line, rx[x] \o <<" ">>)

\* filter_chunk without the vendor rule of lines 68-69
filter_chunk_no_vendor(chunk) ==
    LET ls == split(chunk)
    IN  IF Len(ls) < 2 THEN FALSE
        ELSE LET package_line == ls[2]
             IN  IF StartsWith(package_line, GithubPrefix)
                    /\ ~StartsWith(package_line, ProjectPrefix) THEN FALSE
                 ELSE IF StartsWith(package_line, InternalPoll) THEN FALSE
                 ELSE IF StartsWith(package_line, PropagateCancel) THEN FALSE
                 ELSE IF StartsWith(package_line, RuntimeGopark) THEN FALSE
                 ELSE IF StartsWith(package_line, RuntimeFutex) THEN FALSE
                 ELSE IF StartsWith(package_line, SignalRecv) THEN FALSE
                 ELSE TRUE

filter_chunk(chunk) ==
    LET ls == split(chunk)
    IN  IF Len(ls) < 2 THEN FALSE
        ELSE LET package_line == ls[2]
             IN  IF StartsWith(package_line, VendorPrefix) THEN FALSE
                 ELSE IF StartsWith(package_line, GithubPrefix)
                         /\ ~StartsWith(package_line, ProjectPrefix) THEN FALSE
                 ELSE IF StartsWith(package_line, InternalPoll) THEN FALSE
                 ELSE IF StartsWith(package_line, PropagateCancel) THEN FALSE
                 ELSE IF StartsWith(package_line, RuntimeGopark) THEN FALSE
                 ELSE IF StartsWith(package_line, RuntimeFutex) THEN FALSE
                 ELSE IF StartsWith(package_line, SignalRecv) THEN FALSE
                 ELSE TRUE

\* ScanStop with the test of line 94 reduced to is_chunk(jline)
ScanStopHeaderOnly(ls, i0) ==
    LET stops == {j \in (i0 + 1)..(Len(ls) - 1) : is_chunk(ls[j + 1])}
    IN  IF stops = {} THEN Unbound ELSE Min(stops)

\* the inner loop: the first j in i+1 .. len-1 whose line is a chunk header or
\* an end line, or Unbound when the loop runs out without a break
ScanStop(ls, i0) ==
    LET stops == {j \in (i0 + 1)..(Len(ls) - 1) :
                     is_chunk(ls[j + 1]) \/ is_end(ls[j + 1])}
    IN  IF stops = {} THEN Unbound ELSE Min(stops)

(* ---------------- state ---------------- *)

VARIABLES
    lines,      \* the input, as readlines() returned it
    pc,         \* where the script is
    start,      \* the name start
    i,          \* the name i
    nxt,        \* the next value the running for loop's range will yield
    end,        \* the name end (Unbound until line 98 assigns it)
    chunks,     \* the list chunks
    spans,      \* history: for every chunk, <<index of its header, index of the line that closed it>>
    count,      \* the name count
    out,        \* what was written to standard output, in order
    err,        \* what was written to standard error, in order
    status,     \* the exit status (Unbound while running)
    \* centos-ci.py
    ci_pc,      \* where the script is
    ci_argc,    \* len(sys.argv)
    ci_env,     \* the environment's DUFFY_API_KEY: "unset", "" or a key
    ci_file,    \* the file duffy.key: "missing" or its stripped content
    ci_apikey,  \* the name apikey
    ci_host,    \* TRUE once Node/get has handed out a host
    ci_r,       \* the name r
    ci_setup,   \* history: the exit status of the setup command
    ci_reqs,    \* the requests sent to the node service, in order
    ci_out,     \* what was printed, in order
    ci_status,  \* the exit status (Unbound while running)
    \* copr-build.py
    co_pc,      \* where the script is
    co_watched, \* the set watched (the builds of result.builds_list)
    co_remote,  \* the status the build service holds for every build
    co_done,    \* the set done
    co_state,   \* the dict state
    co_todo,    \* the builds the running pass of line 52 has yet to visit
    co_last,    \* history: the build whose status the last step fetched, 0 if none
    co_out      \* the last line printed

fvars ==
    <<lines, pc, start, i, nxt, end, chunks, spans, count, out, err, status>>

civars ==
    <<ci_pc, ci_argc, ci_env, ci_file, ci_apikey, ci_host, ci_r, ci_setup,
      ci_reqs, ci_out, ci_status>>

covars ==
    <<co_pc, co_watched, co_remote, co_done, co_state, co_todo, co_last, co_out>>

vars ==
    <<fvars, civars, covars>>

\* one write to a stream
Entry(tag, n, text) ==
    [tag |-> tag, n |-> n, text |-> text]

FilterInit ==
    /\ lines \in Inputs
    /\ pc = "locate"
    /\ start = Unbound
    /\ i = Unbound
    /\ nxt = 0
    /\ end = Unbound
    /\ chunks = <<>>
    /\ spans = <<>>
    /\ count = 0
    /\ out = <<>>
    /\ err = <<>>
    /\ status = Unbound

(* ---------------- steps of filter-golang-stack.py ---------------- *)

\* lines 31-45: print the line count, find the program start, exit(1) without one
LocateStart ==
    /\ pc = "locate"
    /\ LET s == FindStart(lines)
       IN  /\ start' = s
           /\ i' = IF s = -1 THEN (IF Len(lines) = 0 THEN i ELSE Len(lines) - 1) ELSE s
           /\ IF s = -1
              THEN /\ out' = Append(out, Entry("read", Len(lines), <<>>))
                   /\ err' = Append(err, Entry("no_start", 0, <<>>))
                   /\ status' = 1
                   /\ pc' = "exited"
                   /\ nxt' = nxt
              ELSE /\ out' = out \o << Entry("read", Len(lines), <<>>),
                                       Entry("starts", s + 1, <<>>) >>
                   /\ err' = err
                   /\ status' = status
                   /\ pc' = "collect"
                   /\ nxt' = s + 1
    /\ UNCHANGED <<lines, end, chunks, spans, count>>
    /\ UNCHANGED <<civars, covars>>

\* lines 86-101: one iteration of the outer loop, with the whole inner loop.
\* The assignment i = j of line 96 rebinds the name i only: the range of line 86
\* yields its next value whatever i is.
CollectStep ==
    /\ pc = "collect"
    /\ nxt < Len(lines)
    /\ LET cur == nxt
           j == ScanStop(lines, cur)
       IN  /\ nxt' = cur + 1
           /\ IF is_chunk(lines[cur + 1]) /\ j # Unbound
              THEN /\ chunks' = Append(chunks, Accumulate(lines, cur, j))
                   /\ spans' = Append(spans, <<cur, j>>)
                   /\ i' = j
                   /\ end' = IF is_end(lines[j + 1]) THEN j ELSE end
              ELSE /\ i' = cur
                   /\ UNCHANGED <<chunks, spans, end>>
    /\ UNCHANGED <<lines, pc, start, count, out, err, status>>
    /\ UNCHANGED <<civars, covars>>

\* line 104: the outer loop is over
CollectDone ==
    /\ pc = "collect"
    /\ nxt >= Len(lines)
    /\ out' = Append(out, Entry("found", Len(chunks), <<>>))
    /\ count' = 0
    /\ nxt' = 0
    /\ pc' = "report"
    /\ UNCHANGED <<lines, start, i, end, chunks, spans, err, status>>
    /\ UNCHANGED <<civars, covars>>

\* lines 107-115: one iteration of the report loop
ReportStep ==
    /\ pc = "report"
    /\ nxt < Len(chunks)
    /\ i' = nxt
    /\ nxt' = nxt + 1
    /\ IF filter_chunk(chunks[nxt + 1])
       THEN /\ out' = out \o << Entry("label", nxt, <<>>),
                                Entry("chunk", 0, chunks[nxt + 1] \o <<"\n">>),
                                Entry("blank", 0, <<"\n">>) >>
            /\ count' = count + 1
       ELSE UNCHANGED <<out, count>>
    /\ UNCHANGED <<lines, pc, start, end, chunks, spans, err, status>>
    /\ UNCHANGED <<civars, covars>>

\* line 117: the report loop is over
ReportDone ==
    /\ pc = "report"
    /\ nxt >= Len(chunks)
    /\ out' = Append(out, Entry("got", count, <<>>))
    /\ pc' = "ends"
    /\ UNCHANGED <<lines, start, i, nxt, end, chunks, spans, count, err, status>>
    /\ UNCHANGED <<civars, covars>>

\* line 119: reads end; an unassigned end raises NameError, which ends the
\* script with a traceback on standard error and status 1
PrintEnd ==
    /\ pc = "ends"
    /\ IF end = Unbound
       THEN /\ err' = Append(err, Entry("NameError", 0, <<>>))
            /\ status' = 1
            /\ pc' = "exited"
            /\ UNCHANGED <<out, nxt>>
       ELSE /\ out' = Append(out, Entry("ends", end + 1, <<>>))
            /\ nxt' = end
            /\ pc' = "tail"
            /\ UNCHANGED <<err, status>>
    /\ UNCHANGED <<lines, start, i, end, chunks, spans, count>>
    /\ UNCHANGED <<civars, covars>>

\* lines 121-123: one iteration of the tail loop; the line is printed as it is
TailStep ==
    /\ pc = "tail"
    /\ nxt < Len(lines)
    /\ i' = nxt
    /\ nxt' = nxt + 1
    /\ out' = Append(out, Entry("tail", 0, lines[nxt + 1]))
    /\ UNCHANGED <<lines, pc, start, end, chunks, spans, count, err, status>>
    /\ UNCHANGED <<civars, covars>>

\* the end of the script: status 0
Finish ==
    /\ pc = "tail"
    /\ nxt >= Len(lines)
    /\ status' = 0
    /\ pc' = "exited"
    /\ UNCHANGED <<lines, start, i, nxt, end, chunks, spans, count, out, err>>
    /\ UNCHANGED <<civars, covars>>

(* ======================================================================= *)
(* centos-ci.py                                                             *)
(* ======================================================================= *)

\* the largest exit status a remote command returns in the model
MaxExit ==
    2

\* the input of a run: the argument count, the environment, the key file
CIInit ==
    /\ ci_pc = "key"
    /\ ci_argc \in 1..4
    /\ ci_env \in {"unset", "", "envkey"}
    /\ ci_file \in {"missing", "", "filekey"}
    /\ ci_apikey = ""
    /\ ci_host = FALSE
    /\ ci_r = Unbound
    /\ ci_setup = Unbound
    /\ ci_reqs = <<>>
    /\ ci_out = <<>>
    /\ ci_status = Unbound

\* the script is not part of the run
CIOff ==
    /\ ci_pc = "off"
    /\ ci_argc = 0
    /\ ci_env = "unset"
    /\ ci_file = "missing"
    /\ ci_apikey = ""
    /\ ci_host = FALSE
    /\ ci_r = Unbound
    /\ ci_setup = Unbound
    /\ ci_reqs = <<>>
    /\ ci_out = <<>>
    /\ ci_status = Unbound

\* lines 21-25: the inline key is empty, so the environment is asked, and the
\* key file when the environment has no key; a missing file raises IOError
CIKey ==
    /\ ci_pc = "key"
    /\ IF ci_env \notin {"unset", ""}
       THEN /\ ci_apikey' = ci_env
            /\ ci_pc' = "args"
            /\ UNCHANGED <<ci_out, ci_status>>
       ELSE IF ci_file = "missing"
       THEN /\ ci_out' = Append(ci_out, "IOError")
            /\ ci_status' = 1
            /\ ci_pc' = "exited"
            /\ UNCHANGED ci_apikey
       ELSE /\ ci_apikey' = ci_file
            /\ ci_pc' = "args"
            /\ UNCHANGED <<ci_out, ci_status>>
    /\ UNCHANGED <<ci_argc, ci_env, ci_file, ci_host, ci_r, ci_setup, ci_reqs>>
    /\ UNCHANGED <<fvars, covars>>

\* lines 30-40: the static argv is empty, so sys.argv is used
CIArgs ==
    /\ ci_pc = "args"
    /\ IF ci_argc <= 1
       THEN /\ ci_out' = Append(ci_out, "Not enough arguments supplied!")
            /\ ci_status' = 1
            /\ ci_pc' = "exited"
       ELSE /\ ci_pc' = "lease"
            /\ UNCHANGED <<ci_out, ci_status>>
    /\ UNCHANGED <<ci_argc, ci_env, ci_file, ci_apikey, ci_host, ci_r, ci_setup, ci_reqs>>
    /\ UNCHANGED <<fvars, covars>>

\* lines 42-48: the Node/get request; a failed request or an answer without a
\* host raises an exception
CILease ==
    /\ ci_pc = "lease"
    /\ ci_reqs' = Append(ci_reqs, "Node/get")
    /\ \E answer \in {"host", "error"} :
           IF answer = "host"
           THEN /\ ci_host' = TRUE
                /\ ci_pc' = "setup"
                /\ UNCHANGED <<ci_out, ci_status>>
           ELSE /\ ci_out' = Append(ci_out, "Traceback")
                /\ ci_status' = 1
                /\ ci_pc' = "exited"
                /\ UNCHANGED ci_host
    /\ UNCHANGED <<ci_argc, ci_env, ci_file, ci_apikey, ci_r, ci_setup>>
    /\ UNCHANGED <<fvars, covars>>

\* lines 52-58: the setup command; a nonzero status ends the script at once
CISetup ==
    /\ ci_pc = "setup"
    /\ \E r \in 0..MaxExit :
           /\ ci_r' = r
           /\ ci_setup' = r
           /\ IF r # 0
              THEN /\ ci_out' = ci_out \o <<"cmd", "Error configuring omv">>
                   /\ ci_status' = r
                   /\ ci_pc' = "exited"
              ELSE /\ ci_out' = Append(ci_out, "cmd")
                   /\ ci_pc' = "run"
                   /\ UNCHANGED ci_status
    /\ UNCHANGED <<ci_argc, ci_env, ci_file, ci_apikey, ci_host, ci_reqs>>
    /\ UNCHANGED <<fvars, covars>>

\* CIRun with an exit on failure copied from the setup step
CIRunExitOnFailure ==
    /\ ci_pc = "run"
    /\ \E r \in 0..MaxExit :
           /\ ci_r' = r
           /\ IF r # 0
              THEN /\ ci_out' = ci_out \o <<"cmd", "Error running job">>
                   /\ ci_status' = r
                   /\ ci_pc' = "exited"
              ELSE /\ ci_out' = Append(ci_out, "cmd")
                   /\ ci_pc' = "release"
                   /\ UNCHANGED ci_status
    /\ UNCHANGED <<ci_argc, ci_env, ci_file, ci_apikey, ci_host, ci_setup, ci_reqs>>
    /\ UNCHANGED <<fvars, covars>>

\* lines 61-66: the test command; a nonzero status is only reported
CIRun ==
    /\ ci_pc = "run"
    /\ \E r \in 0..MaxExit :
           /\ ci_r' = r
           /\ ci_out' = IF r # 0 THEN ci_out \o <<"cmd", "Error running job">>
                                 ELSE Append(ci_out, "cmd")
    /\ ci_pc' = "release"
    /\ UNCHANGED <<ci_argc, ci_env, ci_file, ci_apikey, ci_host, ci_setup, ci_reqs,
                   ci_status>>
    /\ UNCHANGED <<fvars, covars>>

\* lines 68-72: the Node/done request, then exit with the test command's status;
\* a failed request raises an exception
CIRelease ==
    /\ ci_pc = "release"
    /\ ci_reqs' = Append(ci_reqs, "Node/done")
    /\ \E output \in {"Done", "Fail", "error"} :
           IF output = "error"
           THEN /\ ci_out' = Append(ci_out, "Traceback")
                /\ ci_status' = 1
           ELSE /\ ci_out' = IF output # "Done" THEN Append(ci_out, "Error freeing host")
                                                ELSE ci_out
                /\ ci_status' = ci_r
    /\ ci_pc' = "exited"
    /\ UNCHANGED <<ci_argc, ci_env, ci_file, ci_apikey, ci_host, ci_r, ci_setup>>
    /\ UNCHANGED <<fvars, covars>>

(* ======================================================================= *)
(* copr-build.py                                                            *)
(* ======================================================================= *)

\* the most builds create_new_build returns in the model
MaxBuilds ==
    2

Builds ==
    1..MaxBuilds

\* line 60: the statuses that end the watch of a build
Completed ==
    {"skipped", "failed", "succeeded"}

\* the statuses the build service reports
Statuses ==
    {"pending", "running"} \cup Completed

CoInit ==
    /\ co_pc = "submit"
    /\ co_watched = {}
    /\ co_remote = [b \in Builds |-> "none"]
    /\ co_done = {}
    /\ co_state = [b \in Builds |-> "none"]
    /\ co_todo = {}
    /\ co_last = 0
    /\ co_out = Entry("", 0, "")

\* the script is not part of the run
CoOff ==
    /\ co_pc = "off"
    /\ co_watched = {}
    /\ co_remote = [b \in Builds |-> "none"]
    /\ co_done = {}
    /\ co_state = [b \in Builds |-> "none"]
    /\ co_todo = {}
    /\ co_last = 0
    /\ co_out = Entry("", 0, "")

\* lines 23-31: submit; an answer other than ok ends the script with status 1,
\* otherwise the message and the status of every build are printed
CoSubmit ==
    /\ co_pc = "submit"
    /\ \/ /\ co_out' = Entry("error", 0, "")
          /\ co_pc' = "failed"
          /\ UNCHANGED <<co_watched, co_remote>>
       \/ \E n \in 0..MaxBuilds : \E st \in [Builds -> Statuses] :
             /\ co_watched' = 1..n
             /\ co_remote' = [b \in Builds |-> IF b <= n THEN st[b] ELSE "none"]
             /\ co_out' = Entry("message", n, "")
             /\ co_pc' = "store"
    /\ UNCHANGED <<co_done, co_state, co_todo, co_last>>
    /\ UNCHANGED <<fvars, civars>>

\* lines 45-49: watched, done, and the initial state of every build
CoStore ==
    /\ co_pc = "store"
    /\ co_done' = {}
    /\ co_state' = [b \in Builds |-> IF b \in co_watched THEN co_remote[b] ELSE "none"]
    /\ co_pc' = "while"
    /\ UNCHANGED <<co_watched, co_remote, co_todo, co_last, co_out>>
    /\ UNCHANGED <<fvars, civars>>

\* line 51: the loop test; a pass over watched starts when it holds
CoWhile ==
    /\ co_pc = "while"
    /\ IF co_watched # co_done
       THEN co_pc' = "pass" /\ co_todo' = co_watched
       ELSE co_pc' = "print" /\ UNCHANGED co_todo
    /\ co_last' = 0
    /\ UNCHANGED <<co_watched, co_remote, co_done, co_state, co_out>>
    /\ UNCHANGED <<fvars, civars>>

\* line 60 with 'skipped' left out of the list
IsCompletedNoSkipped(st) ==
    st \in {"failed", "succeeded"}

\* line 60
IsCompleted(st) ==
    st \in Completed

\* lines 52-61: one iteration of the pass, for a build the pass has not visited
CoVisit ==
    /\ co_pc = "pass"
    /\ \E b \in co_todo :
           /\ co_todo' = co_todo \ {b}
           /\ IF b \in co_done
              THEN /\ co_last' = 0
                   /\ UNCHANGED <<co_done, co_state, co_out>>
              ELSE LET st == co_remote[b]
                   IN  /\ co_last' = b
                       /\ IF st # co_state[b]
                          THEN /\ co_out' = Entry("build", b, st)
                               /\ co_state' = [co_state EXCEPT ![b] = st]
                          ELSE UNCHANGED <<co_out, co_state>>
                       /\ co_done' = IF IsCompleted(st) THEN co_done \cup {b} ELSE co_done
    /\ UNCHANGED <<co_pc, co_watched, co_remote>>
    /\ UNCHANGED <<fvars, civars>>

\* lines 63-64: after a pass, leave the loop or sleep and test again
CoPassEnd ==
    /\ co_pc = "pass"
    /\ co_todo = {}
    /\ co_pc' = IF co_watched = co_done THEN "print" ELSE "while"
    /\ co_last' = 0
    /\ UNCHANGED <<co_watched, co_remote, co_done, co_state, co_todo, co_out>>
    /\ UNCHANGED <<fvars, civars>>

\* line 66
CoPrintDone ==
    /\ co_pc = "print"
    /\ co_out' = Entry("Done!", 0, "")
    /\ co_pc' = "done"
    /\ co_last' = 0
    /\ UNCHANGED <<co_watched, co_remote, co_done, co_state, co_todo>>
    /\ UNCHANGED <<fvars, civars>>

\* the build service: a build that has not completed changes its status; a
\* completed status is final
CoService ==
    /\ co_pc \in {"store", "while", "pass"}
    /\ \E b \in co_watched : \E st \in Statuses \ {co_remote[b]} :
           /\ co_remote[b] \notin Completed
           /\ co_remote' = [co_remote EXCEPT ![b] = st]
    /\ co_last' = 0
    /\ UNCHANGED <<co_pc, co_watched, co_done, co_state, co_todo, co_out>>
    /\ UNCHANGED <<fvars, civars>>

(* ======================================================================= *)
(* The specifications, one for each script                                  *)
(* ======================================================================= *)

Init ==
    FilterInit /\ CIOff /\ CoOff

Next ==
    \/ LocateStart
    \/ CollectStep
    \/ CollectDone
    \/ ReportStep
    \/ ReportDone
    \/ PrintEnd
    \/ TailStep
    \/ Finish

Spec ==
    Init /\ [][Next]_vars

\* filter-golang-stack.py is off: its state stays what it is at line 24
FilterOff ==
    /\ lines = <<>>
    /\ pc = "off"
    /\ start = Unbound
    /\ i = Unbound
    /\ nxt = 0
    /\ end = Unbound
    /\ chunks = <<>>
    /\ spans = <<>>
    /\ count = 0
    /\ out = <<>>
    /\ err = <<>>
    /\ status = Unbound

InitCI ==
    FilterOff /\ CIInit /\ CoOff

NextCI ==
    \/ CIKey
    \/ CIArgs
    \/ CILease
    \/ CISetup
    \/ CIRun
    \/ CIRelease

SpecCI ==
    InitCI /\ [][NextCI]_vars

InitCopr ==
    FilterOff /\ CIOff /\ CoInit

\* the steps of the script
CoProgram ==
    \/ CoSubmit
    \/ CoStore
    \/ CoWhile
    \/ CoVisit
    \/ CoPassEnd
    \/ CoPrintDone

NextCopr ==
    \/ CoProgram
    \/ CoService

\* the script is sequential and every call of it returns (time.sleep(10)
\* included): it takes its next step as long as it has one
SpecCopr ==
    InitCopr /\ [][NextCopr]_vars /\ WF_vars(CoProgram)

(* ======================================================================= *)
(* Properties of filter-golang-stack.py                                     *)
(* ======================================================================= *)

Range(f) ==
    {f[k] : k \in DOMAIN f}

\* the texts of the tail lines written so far, in order
RECURSIVE TailOf(_)
TailOf(o) ==
    IF o = <<>> THEN <<>>
    ELSE IF Head(o).tag = "tail" THEN <<Head(o).text>> \o TailOf(Tail(o))
    ELSE TailOf(Tail(o))

\* a line is a boundary when it is a chunk header or a register line
Boundary(p) ==
    is_chunk(lines[p + 1]) \/ is_end(lines[p + 1])

HasPcLine ==
    \E k \in 1..Len(lines) : StartsWith(lines[k], PcPrefix)

\* the zero based index of the first line starting with PC= (when there is one)
FirstPc ==
    Min({k \in 0..(Len(lines) - 1) : StartsWith(lines[k + 1], PcPrefix)})

\* the register lines after the start marker (zero based indices)
EndLines ==
    IF HasPcLine
    THEN {p \in (FirstPc + 1)..(Len(lines) - 1) : is_end(lines[p + 1])}
    ELSE {}

\* the collection loop is over
Collected ==
    HasPcLine /\ pc \in {"report", "ends", "tail", "exited"}

RECURSIVE Flatten(_)
Flatten(cs) ==
    IF cs = <<>> THEN <<>> ELSE Head(cs) \o Flatten(Tail(cs))

\* the report loop has handled chunk k (zero based)
Reported(k) ==
    \/ pc = "report" /\ k < nxt
    \/ pc \in {"ends", "tail", "exited"} /\ HasPcLine

Kept(k) ==
    Entry("label", k, <<>>) \in Range(out)

\* the number of input lines chunk k is made of, and its second line
ChunkLines(k) ==
    spans[k + 1][2] - spans[k + 1][1]

SecondLine(k) ==
    lines[spans[k + 1][1] + 2]

ExampleInput ==
    <<LineHeader, LinePC, LineMain, LineOwn, LineRax>>

\* C1: on the input header, PC=0x1, main.main(), github.com/purpleidea/mgmt/foo.go:1,
\* rax 0x0 (every line with its terminator) the run reports start at line 2,
\* collects the one chunk main.main() + foo.go:1, keeps it, reports end at
\* line 5 and writes the tail rax 0x0.
C1_ExampleRun ==
    (lines = ExampleInput /\ pc = "exited") =>
        /\ Entry("starts", 2, <<>>) \in Range(out)
        /\ chunks = << LineMain \o LineOwn >>
        /\ Kept(0)
        /\ Entry("chunk", 0, LineMain \o LineOwn \o <<"\n">>) \in Range(out)
        /\ Entry("ends", 5, <<>>) \in Range(out)
        /\ TailOf(out) = <<LineRax>>

\* C2: when no line after the start marker is a register line, the run ends in
\* an explicit error (a message of its own, nonzero status) before any chunk
\* report, and end is never read unassigned; the report is never written
\* while end is unassigned.
C2_MissingEndIsGuarded ==
    (HasPcLine /\ EndLines = {}) =>
        /\ pc = "exited" =>
               /\ status = 1
               /\ err = << Entry("no_end", 0, <<>>) >>
               /\ \A k \in 1..Len(out) : out[k].tag \in {"read", "starts"}
        /\ Entry("NameError", 0, <<>>) \notin Range(err)
        /\ (\E k \in 1..Len(out) : out[k].tag = "found") => end # Unbound

\* C3: without a line starting with PC= the run writes the no-start message to
\* standard error, exits with status 1 and has written only the line count;
\* with one, the reported start is the 1-based index of the first such line.
C3_StartLocated ==
    pc # "locate" =>
        IF HasPcLine
        THEN /\ Len(out) >= 2
             /\ out[2].tag = "starts"
             /\ out[2].n \in 1..Len(lines)
             /\ StartsWith(lines[out[2].n], PcPrefix)
             /\ \A m \in 1..(out[2].n - 1) : ~StartsWith(lines[m], PcPrefix)
        ELSE /\ pc = "exited"
             /\ status = 1
             /\ err = << Entry("no_start", 0, <<>>) >>
             /\ out = << Entry("read", Len(lines), <<>>) >>

C3_Witness ==
    pc = "exited" /\ ~HasPcLine /\ Len(lines) >= 3 /\ status = 1

\* C4: once the tail is being written, end is the index of the first register
\* line after the start marker, that index is the one reported, and the tail
\* written is exactly the input from that line to the last one.
C4_TailFromFirstEndLine ==
    (pc = "tail" \/ (pc = "exited" /\ status = 0)) =>
        /\ EndLines # {}
        /\ end = Min(EndLines)
        /\ Entry("ends", Min(EndLines) + 1, <<>>) \in Range(out)
        /\ pc = "exited" => TailOf(out) = SubSeq(lines, Min(EndLines) + 1, Len(lines))

\* C5 as claimed: every reported chunk of at least two lines whose second line
\* starts with the project prefix is kept, the vendored ones included.
C5_OwnAlwaysKept ==
    \A k \in 0..(Len(chunks) - 1) :
        (Reported(k) /\ ChunkLines(k) >= 2 /\ StartsWith(SecondLine(k), ProjectPrefix))
            => Kept(k)

\* C5 as amended: a reported chunk of at least two lines whose second line
\* starts with the project prefix is kept exactly when that line does not start
\* with the vendor prefix: the vendor rule is tested first and wins, the
\* project prefix only exempts a chunk from the github.com/ rule.
C5_OwnKeptUnlessVendor ==
    \A k \in 0..(Len(chunks) - 1) :
        (Reported(k) /\ ChunkLines(k) >= 2 /\ StartsWith(SecondLine(k), ProjectPrefix))
            => (Kept(k) <=> ~StartsWith(SecondLine(k), VendorPrefix))

C5_Witness ==
    /\ pc = "exited"
    /\ status = 0
    /\ \E k \in 0..(Len(chunks) - 1) :
           /\ ChunkLines(k) >= 2
           /\ StartsWith(SecondLine(k), VendorPrefix)
           /\ ~Kept(k)
    /\ \E k \in 0..(Len(chunks) - 1) : Kept(k)

\* C7: a chunk that is its header line alone is never kept.
C7_HeaderOnlyRejected ==
    \A k \in 0..(Len(chunks) - 1) :
        (Reported(k) /\ ChunkLines(k) < 2) => ~Kept(k)

\* a header after the start marker that no later boundary line closes: the
\* trailing partial chunk, which the collection loop drops
OpenHeaders ==
    {h \in (FirstPc + 1)..(Len(lines) - 1) :
        /\ is_chunk(lines[h + 1])
        /\ \A q \in (h + 1)..(Len(lines) - 1) : ~Boundary(q)}

\* C6 as claimed: the chunks are disjoint contiguous runs of body lines in
\* order, and put end to end, with the dropped trailing partial chunk, they are
\* exactly the lines after the start marker and before the end marker.
C6_ChunksCoverBody ==
    Collected =>
        /\ \A k \in 1..Len(chunks) :
               /\ FirstPc < spans[k][1] /\ spans[k][1] < spans[k][2]
               /\ chunks[k] = Accumulate(lines, spans[k][1], spans[k][2])
        /\ \A k \in 1..(Len(chunks) - 1) : spans[k][2] <= spans[k + 1][1]
        /\ Flatten(chunks)
             \o (IF EndLines = {} /\ OpenHeaders # {}
                 THEN Accumulate(lines, Min(OpenHeaders), Len(lines)) ELSE <<>>)
           = Accumulate(lines, FirstPc + 1,
                        IF EndLines = {} THEN Len(lines) ELSE Min(EndLines))

\* line p lies in a run that the loop collects: a header at or before it with
\* no boundary line in between, and a boundary line after it
Covered(p) ==
    /\ \E h \in (FirstPc + 1)..p :
           /\ is_chunk(lines[h + 1])
           /\ \A q \in (h + 1)..p : ~Boundary(q)
    /\ \E q \in (p + 1)..(Len(lines) - 1) : Boundary(q)

\* C6 as amended: the chunks are disjoint contiguous runs of lines after the
\* start marker, in order; a line after the start marker belongs to exactly one
\* chunk when it is a header line, or follows one with no boundary line in
\* between, and a boundary line comes after it; every other line (before the
\* first header, from a register line up to the next header, in the trailing
\* partial chunk) belongs to no chunk.
C6_ChunksAreHeaderRuns ==
    Collected =>
        /\ \A k \in 1..Len(chunks) :
               /\ FirstPc < spans[k][1] /\ spans[k][1] < spans[k][2]
               /\ spans[k][2] <= Len(lines) - 1
               /\ chunks[k] = Accumulate(lines, spans[k][1], spans[k][2])
        /\ \A k \in 1..(Len(chunks) - 1) : spans[k][2] <= spans[k + 1][1]
        /\ \A p \in (FirstPc + 1)..(Len(lines) - 1) :
               Cardinality({k \in 1..Len(chunks) : spans[k][1] <= p /\ p < spans[k][2]})
                   = IF Covered(p) THEN 1 ELSE 0

C6_Witness ==
    /\ pc = "exited"
    /\ status = 0
    /\ Len(chunks) >= 1
    /\ spans[1][1] > FirstPc + 1
    /\ spans[1][2] > spans[1][1] + 1

\* C9: when an inner scan stops, the outer loop goes on at the line it stopped
\* on; and once end is assigned it never changes, no chunk is appended any
\* more, and no chunk reaches the line of end or a later one.
C9_EndStopsCollection ==
    [][ /\ (pc = "collect" /\ Len(chunks') > Len(chunks))
            => nxt' = spans'[Len(spans')][2]
        /\ end # Unbound => (end' = end /\ chunks' = chunks)
        /\ end' # Unbound => \A k \in 1..Len(spans') : spans'[k][2] <= end'
      ]_vars

(* ======================================================================= *)
(* Properties of centos-ci.py                                               *)
(* ======================================================================= *)

Released ==
    "Node/done" \in Range(ci_reqs)

\* C8 as claimed: a run that obtained a host has sent Node/done by the time
\* it exits, whatever the setup and the test command returned.
C8_AlwaysReleased ==
    (ci_pc = "exited" /\ ci_host) => Released

\* C8 as amended: a run that obtained a host has sent Node/done by the time it
\* exits exactly when the setup command returned 0, whatever the test command
\* returned; when the setup command fails the script exits with its status and
\* leaves the host leased.
C8_ReleasedUnlessSetupFails ==
    (ci_pc = "exited" /\ ci_host) =>
        /\ Released <=> ci_setup = 0
        /\ ci_setup # 0 => ci_status = ci_setup

C8_Witness ==
    /\ ci_pc = "exited"
    /\ ci_host
    /\ ci_setup = 0
    /\ ci_r # 0
    /\ ci_status = ci_r
    /\ Released

(* ======================================================================= *)
(* Properties of copr-build.py                                              *)
(* ======================================================================= *)

\* C10: done stays a subset of the submitted builds; a build enters done only
\* in a step that fetched its status and found it skipped, failed or
\* succeeded; the status of a build in done is never fetched; the loop is left
\* exactly when done equals the submitted builds; and when every submitted
\* build reaches a completed status the script gets to print Done!.
C10_PollingLoop ==
    /\ [](co_done \subseteq co_watched)
    /\ [][\A b \in co_done' \ co_done :
              co_last' = b /\ co_remote[b] \in Completed]_vars
    /\ [][co_last' # 0 => co_last' \notin co_done]_vars
    /\ [](co_pc \in {"print", "done"} => co_done = co_watched)
    /\ [][(co_pc \in {"while", "pass"} /\ co_pc' # co_pc)
              => (co_pc' = "print" <=> co_done = co_watched)]_vars
    /\ (\A b \in Builds :
            <>(co_pc # "submit" /\ (b \in co_watched => co_remote[b] \in Completed)))
         => <>(co_pc = "failed" \/ (co_pc = "done" /\ co_out = Entry("Done!", 0, "")))

C10_Witness ==
    /\ co_pc = "done"
    /\ co_watched = Builds
    /\ co_done = Builds
    /\ co_out = Entry("Done!", 0, "")
    /\ \E b \in Builds : co_state[b] = "skipped"

====
